---- MODULE Spec2Model ----
\* Model of the VDAS Whisper STT microservice (whisper-stt/server.py):
\* the POST /transcribe handler, the GET /health handler, the process-wide
\* inference lock and the single event-loop thread that runs the handlers.
EXTENDS Integers, Sequences, FiniteSets, TLC

\* ---------------------------------------------------------------- bounds
NumRequests == 2      \* POST /transcribe requests in flight
NumHealth == 1        \* GET /health requests in flight
MaxTextLen == 3       \* longest raw model output, in characters

\* ------------------------------------------------------------- constants
MAX_UPLOAD_BYTES == 1048576
MAX_AUDIO_DURATION_SEC == 5
ALLOWED_SAMPLE_RATE == 16000
ALLOWED_CHANNELS == 1
ALLOWED_SAMPLE_WIDTH == 2
WAVE_FORMAT_PCM == 1

Requests == 1..NumRequests
HealthRequests == 1..NumHealth
Free == 0             \* lock owner / event-loop occupant when there is none

\* Content types the handler accepts (the tuple of the first check).
AllowedContentTypes ==
    {"audio/wav", "audio/wave", "audio/x-wav", "application/octet-stream"}

\* ---------------------------------------------------------------- uploads
\* An upload is the declared content type ("" when absent) and the bytes.
\* The bytes are described by what decides the handler's path:
\*   kind "junk": junkLen bytes that do not start with a RIFF id;
\*   kind "wav" : a canonical RIFF/WAVE file: 12-byte RIFF header, a 16-byte
\*     fmt chunk (format tag, channels, rate, bits per sample), a data chunk
\*     whose header declares dataDecl bytes of which dataAvail are present
\*     (dataAvail < dataDecl: the file is cut short), then trail extra bytes.
ContentTypes == {"", "audio/wav", "text/plain"}
JunkLens == {0, 4, 100, MAX_UPLOAD_BYTES, MAX_UPLOAD_BYTES + 1}
FormatTags == {WAVE_FORMAT_PCM, 3}
Rates == {0, 8000, ALLOWED_SAMPLE_RATE}
ChannelCounts == {0, 1, 2}
BitDepths == {0, 8, 12, 16}
BoundaryBytes ==
    MAX_AUDIO_DURATION_SEC * ALLOWED_SAMPLE_RATE * ALLOWED_SAMPLE_WIDTH
DataShapes ==
    { <<0, 0>>, <<3, 3>>,
      <<BoundaryBytes, BoundaryBytes>>, <<BoundaryBytes + 2, BoundaryBytes + 2>>,
      <<BoundaryBytes, 3>>, <<BoundaryBytes, 4>> }
Trails == {0, MAX_UPLOAD_BYTES}

JunkUpload(ct, n) ==
    [ctype |-> ct, kind |-> "junk", junkLen |-> n, tag |-> 0, channels |-> 0,
     rate |-> 0, bits |-> 0, dataDecl |-> 0, dataAvail |-> 0, trail |-> 0]

WavUpload(ct, tg, ch, rt, bt, d, tr) ==
    [ctype |-> ct, kind |-> "wav", junkLen |-> 0, tag |-> tg, channels |-> ch,
     rate |-> rt, bits |-> bt, dataDecl |-> d[1], dataAvail |-> d[2],
     trail |-> tr]

AllUploads ==
    { JunkUpload(ct, n) : ct \in ContentTypes, n \in JunkLens }
    \cup
    { WavUpload(x[1], x[2], x[3], x[4], x[5], x[6], x[7]) :
        x \in ContentTypes \X FormatTags \X ChannelCounts \X Rates
              \X BitDepths \X DataShapes \X Trails }

\* The uploads used where several requests run together.
CoreUploads ==
    { WavUpload("audio/wav", WAVE_FORMAT_PCM, 1, ALLOWED_SAMPLE_RATE, 16,
                <<BoundaryBytes, BoundaryBytes>>, 0),
      WavUpload("", WAVE_FORMAT_PCM, 1, 8000, 16, <<3, 3>>, 0),
      WavUpload("audio/wav", WAVE_FORMAT_PCM, 1, ALLOWED_SAMPLE_RATE, 16,
                <<BoundaryBytes, 3>>, 0),
      JunkUpload("text/plain", 100),
      JunkUpload("audio/wav", MAX_UPLOAD_BYTES + 1) }

NoUpload == JunkUpload("", 0)

\* len(raw_bytes)
RawLen(u) ==
    IF u.kind = "junk" THEN u.junkLen
    ELSE 12 + 24 + 8 + u.dataAvail + u.trail

\* ------------------------------------------------------------- responses
Response(st, k, s, a, b, t) ==
    [status |-> st, kind |-> k, str |-> s, actual |-> a, expected |-> b,
     text |-> t]

NoResponse == Response(0, "none", "", 0, 0, <<>>)
\* An exception that leaves the handler uncaught: the framework answers with
\* a bare "Internal Server Error", not a JSON body with a detail.
Unhandled(msg) == Response(500, "unhandled", msg, 0, 0, <<>>)
UnsupportedMediaType(ct) == Response(415, "unsupported_media", ct, 0, 0, <<>>)
PayloadTooLarge(n) ==
    Response(413, "too_large", "", n, MAX_UPLOAD_BYTES, <<>>)
EmptyFile == Response(400, "empty", "", 0, 0, <<>>)
InvalidSampleRate(rt) ==
    Response(400, "bad_rate", "", rt, ALLOWED_SAMPLE_RATE, <<>>)
InvalidChannels(ch) ==
    Response(400, "bad_channels", "", ch, ALLOWED_CHANNELS, <<>>)
InvalidSampleWidth(w) ==
    Response(400, "bad_width", "", w, ALLOWED_SAMPLE_WIDTH, <<>>)
\* the detail prints n_frames / sample_rate; the pair is kept instead
AudioTooLong(frames, rt) == Response(400, "too_long", "", frames, rt, <<>>)
InvalidWav(msg) == Response(400, "invalid_wav", msg, 0, 0, <<>>)
ServiceBusy == Response(503, "busy", "", 0, 0, <<>>)
TranscriptionFailed(msg) == Response(500, "transcription_failed", msg, 0, 0, <<>>)
TextResponse(t) == Response(200, "text", "", 0, 0, t)

\* ------------------------------------------------------ wave.open / reads
\* wave.open(io.BytesIO(raw_bytes), "rb"): either an exception (ok = FALSE,
\* err = str(e)) or the header values.
WaveError(msg) ==
    [ok |-> FALSE, err |-> msg, rate |-> 0, channels |-> 0, sampwidth |-> 0,
     nframes |-> 0]

WaveOpen(u) ==
    IF u.kind = "junk"
    THEN IF u.junkLen < 8 THEN WaveError("")
         ELSE WaveError("file does not start with RIFF id")
    ELSE IF u.tag # WAVE_FORMAT_PCM THEN WaveError("unknown format: 3")
    ELSE IF (u.bits + 7) \div 8 = 0 THEN WaveError("bad sample width")
    ELSE IF u.channels = 0 THEN WaveError("bad # of channels")
    ELSE [ok |-> TRUE, err |-> "", rate |-> u.rate, channels |-> u.channels,
          sampwidth |-> (u.bits + 7) \div 8,
          nframes |-> u.dataDecl \div (u.channels * ((u.bits + 7) \div 8))]

Min(a, b) == IF a < b THEN a ELSE b

\* len(wf.readframes(n_frames)): the data chunk read stops at the end of the
\* chunk or at the end of the bytes, whichever comes first.
ReadFramesLen(u, w) ==
    Min(w.nframes * w.channels * w.sampwidth, u.dataAvail)

\* ------------------------------------------------- the handler's checks
\* 1. Validate content type: the response raised, or NoResponse to go on.
ValidateContentType(u) ==
    IF u.ctype # "" /\ u.ctype \notin AllowedContentTypes
    THEN UnsupportedMediaType(u.ctype)
    ELSE NoResponse

EnforceSizeLimit_noLimit(u) ==
    IF RawLen(u) = 0 THEN EmptyFile ELSE NoResponse

\* 2. Read and enforce size limit (the two checks after file.read()).
EnforceSizeLimit(u) ==
    IF RawLen(u) > MAX_UPLOAD_BYTES THEN PayloadTooLarge(RawLen(u))
    ELSE IF RawLen(u) = 0 THEN EmptyFile
    ELSE NoResponse

\* 3. Validate WAV structure: the body of the try block. duration_sec is
\* computed before the first check, so a frame rate of 0 raises
\* ZeroDivisionError, which the generic except clause turns into a 400.
\* duration_sec > 5.0 is compared as n_frames > 5 * sample_rate.
ValidateWavStructure(u) ==
    LET w == WaveOpen(u) IN
    IF ~w.ok THEN InvalidWav(w.err)
    ELSE IF w.rate = 0 THEN InvalidWav("division by zero")
    ELSE IF w.rate # ALLOWED_SAMPLE_RATE THEN InvalidSampleRate(w.rate)
    ELSE IF w.channels # ALLOWED_CHANNELS THEN InvalidChannels(w.channels)
    ELSE IF w.sampwidth # ALLOWED_SAMPLE_WIDTH
         THEN InvalidSampleWidth(w.sampwidth)
    ELSE IF w.nframes > MAX_AUDIO_DURATION_SEC * w.rate
         THEN AudioTooLong(w.nframes, w.rate)
    ELSE NoResponse

\* len(pcm_bytes) when the try block completes
PcmLen(u) == ReadFramesLen(u, WaveOpen(u))

\* 4. np.frombuffer(pcm_bytes, dtype=np.int16) raises ValueError when the
\* buffer is not a whole number of 2-byte elements; nothing catches it.
ConvertPcm(n) ==
    IF n % 2 # 0
    THEN Unhandled("buffer size must be a multiple of element size")
    ELSE NoResponse

\* ------------------------------------------------------ text formatting
Whitespace == {" "}
Alphabet == {" ", "a", "A"}
LowerChar(c) == IF c = "A" THEN "a" ELSE c
IsUpperChar(c) == c = "A"

RECURSIVE LStrip(_)
LStrip(s) ==
    IF s = <<>> THEN s
    ELSE IF Head(s) \in Whitespace THEN LStrip(Tail(s)) ELSE s

RECURSIVE RStrip(_)
RStrip(s) ==
    IF s = <<>> THEN s
    ELSE IF s[Len(s)] \in Whitespace THEN RStrip(SubSeq(s, 1, Len(s) - 1))
    ELSE s

Strip(s) == RStrip(LStrip(s))
Lower(s) == [i \in 1..Len(s) |-> LowerChar(s[i])]

FormatText_noStrip(raw) == Lower(raw)

\* 6. text = result.text.strip().lower()
FormatText(raw) == Lower(Strip(raw))

\* what whisper.decode may return as result.text
RawOutputs == UNION { [1..n -> Alphabet] : n \in 0..MaxTextLen }
CoreOutputs == { <<>>, <<" ", "A">> }

\* ------------------------------------------------------------------ state
VARIABLES
    pc,         \* pc[r]: where request r's transcribe coroutine stands
    upload,     \* upload[r]: the file of request r
    pcmLen,     \* pcmLen[r]: len(pcm_bytes)
    result,     \* result[r]: result.text of the model
    resp,       \* resp[r]: the response of request r
    lock,       \* _inference_lock: the request holding it, or Free
    loop,       \* the coroutine the event-loop thread is running, or Free
    hpc,        \* hpc[h]: where health request h stands
    lockUsers,  \* history: requests that acquired or released the lock
    invoked     \* history: requests that entered the model invocation

vars == <<pc, upload, pcmLen, result, resp, lock, loop, hpc, lockUsers, invoked>>

Init ==
    /\ pc = [r \in Requests |-> "idle"]
    /\ upload = [r \in Requests |-> NoUpload]
    /\ pcmLen = [r \in Requests |-> 0]
    /\ result = [r \in Requests |-> <<>>]
    /\ resp = [r \in Requests |-> NoResponse]
    /\ lock = Free
    /\ loop = Free
    /\ hpc = [h \in HealthRequests |-> "idle"]
    /\ lockUsers = {}
    /\ invoked = {}

\* raise HTTPException / return: the coroutine ends and the event-loop
\* thread is free again
Finish_releasing(r, response) ==
    /\ pc' = [pc EXCEPT ![r] = "done"]
    /\ resp' = [resp EXCEPT ![r] = response]
    /\ loop' = Free
    /\ lock' = Free
    /\ lockUsers' = lockUsers \cup {r}

Finish(r, response) ==
    /\ pc' = [pc EXCEPT ![r] = "done"]
    /\ resp' = [resp EXCEPT ![r] = response]
    /\ loop' = Free
    /\ UNCHANGED <<lock, lockUsers>>

\* The event loop calls transcribe(file) for request r. The coroutine runs the
\* content-type check and either raises 415 or suspends at
\* "await file.read()", which gives the thread back to the event loop.
Start(r, u) ==
    /\ pc[r] = "idle"
    /\ loop = Free
    /\ upload' = [upload EXCEPT ![r] = u]
    /\ IF ValidateContentType(u) # NoResponse
       THEN Finish(r, ValidateContentType(u))
       ELSE /\ pc' = [pc EXCEPT ![r] = "reading"]
            /\ UNCHANGED <<resp, loop, lock, lockUsers>>
    /\ UNCHANGED <<pcmLen, result, hpc, invoked>>

\* file.read() has completed and the event loop resumes the coroutine. From
\* here to its end the coroutine has no await: it keeps the thread.
Resume(r) ==
    /\ pc[r] = "reading"
    /\ loop = Free
    /\ loop' = r
    /\ pc' = [pc EXCEPT ![r] = "size"]
    /\ UNCHANGED <<upload, pcmLen, result, resp, lock, hpc, lockUsers, invoked>>

\* 2. the size checks
ReadAndEnforceSize(r) ==
    /\ pc[r] = "size"
    /\ loop = r
    /\ IF EnforceSizeLimit(upload[r]) # NoResponse
       THEN Finish(r, EnforceSizeLimit(upload[r]))
       ELSE /\ pc' = [pc EXCEPT ![r] = "wav"]
            /\ UNCHANGED <<resp, loop, lock, lockUsers>>
    /\ UNCHANGED <<upload, pcmLen, result, hpc, invoked>>

\* 3. the try block around wave.open
ValidateWav(r) ==
    /\ pc[r] = "wav"
    /\ loop = r
    /\ IF ValidateWavStructure(upload[r]) # NoResponse
       THEN /\ Finish(r, ValidateWavStructure(upload[r]))
            /\ UNCHANGED pcmLen
       ELSE /\ pc' = [pc EXCEPT ![r] = "convert"]
            /\ pcmLen' = [pcmLen EXCEPT ![r] = PcmLen(upload[r])]
            /\ UNCHANGED <<resp, loop, lock, lockUsers>>
    /\ UNCHANGED <<upload, result, hpc, invoked>>

\* 4. np.frombuffer(...) and whisper.pad_or_trim(...)
Convert(r) ==
    /\ pc[r] = "convert"
    /\ loop = r
    /\ IF ConvertPcm(pcmLen[r]) # NoResponse
       THEN Finish(r, ConvertPcm(pcmLen[r]))
       ELSE /\ pc' = [pc EXCEPT ![r] = "acquire"]
            /\ UNCHANGED <<resp, loop, lock, lockUsers>>
    /\ UNCHANGED <<upload, pcmLen, result, hpc, invoked>>

\* the model invocation handed to a worker thread, without the lock
AcquireLock_offloaded(r) ==
    /\ pc[r] = "acquire"
    /\ loop = r
    /\ pc' = [pc EXCEPT ![r] = "infer"]
    /\ loop' = Free
    /\ UNCHANGED <<upload, pcmLen, result, resp, lock, hpc, lockUsers, invoked>>

\* "if acquired:" instead of "if not acquired:"
AcquireLock_inverted(r) ==
    /\ pc[r] = "acquire"
    /\ loop = r
    /\ IF lock = Free
       THEN /\ pc' = [pc EXCEPT ![r] = "done"]
            /\ resp' = [resp EXCEPT ![r] = ServiceBusy]
            /\ loop' = Free
            /\ lock' = r
            /\ lockUsers' = lockUsers \cup {r}
       ELSE /\ pc' = [pc EXCEPT ![r] = "infer"]
            /\ UNCHANGED <<resp, loop, lock, lockUsers>>
    /\ UNCHANGED <<upload, pcmLen, result, hpc, invoked>>

\* 5. acquired = _inference_lock.acquire(timeout=10). The call blocks the
\* event-loop thread: if the lock is held, no coroutine can run to release
\* it, and the call returns False when the timeout expires.
AcquireLock(r) ==
    /\ pc[r] = "acquire"
    /\ loop = r
    /\ IF lock = Free
       THEN /\ lock' = r
            /\ lockUsers' = lockUsers \cup {r}
            /\ pc' = [pc EXCEPT ![r] = "infer"]
            /\ UNCHANGED <<resp, loop>>
       ELSE Finish(r, ServiceBusy)
    /\ UNCHANGED <<upload, pcmLen, result, hpc, invoked>>

\* the try body: whisper.decode returns a result
ModelReturns(r, raw) ==
    /\ pc[r] = "infer"
    /\ loop = r
    /\ result' = [result EXCEPT ![r] = raw]
    /\ invoked' = invoked \cup {r}
    /\ pc' = [pc EXCEPT ![r] = "finally"]
    /\ UNCHANGED <<upload, pcmLen, resp, lock, loop, hpc, lockUsers>>

\* the try body raises; the except clause raises HTTPException(500), which
\* leaves the handler after the finally clause
ModelRaises(r) ==
    /\ pc[r] = "infer"
    /\ loop = r
    /\ resp' = [resp EXCEPT ![r] = TranscriptionFailed("model error")]
    /\ invoked' = invoked \cup {r}
    /\ pc' = [pc EXCEPT ![r] = "finally"]
    /\ UNCHANGED <<upload, pcmLen, result, lock, loop, hpc, lockUsers>>

\* the release after the try block instead of in a finally clause
ReleaseLock_onSuccessOnly(r) ==
    /\ pc[r] = "finally"
    /\ loop = r
    /\ IF resp[r] # NoResponse
       THEN /\ pc' = [pc EXCEPT ![r] = "done"]
            /\ loop' = Free
            /\ UNCHANGED <<lock, lockUsers>>
       ELSE /\ pc' = [pc EXCEPT ![r] = "format"]
            /\ lock' = Free
            /\ lockUsers' = lockUsers \cup {r}
            /\ UNCHANGED loop
    /\ UNCHANGED <<upload, pcmLen, result, resp, hpc, invoked>>

\* finally: _inference_lock.release()
ReleaseLock(r) ==
    /\ pc[r] = "finally"
    /\ loop = r
    /\ lock' = Free
    /\ lockUsers' = lockUsers \cup {r}
    /\ IF resp[r] # NoResponse
       THEN /\ pc' = [pc EXCEPT ![r] = "done"]
            /\ loop' = Free
       ELSE /\ pc' = [pc EXCEPT ![r] = "format"]
            /\ UNCHANGED loop
    /\ UNCHANGED <<upload, pcmLen, result, resp, hpc, invoked>>

\* 6. return JSONResponse(content={"text": text})
ReturnText(r) ==
    /\ pc[r] = "format"
    /\ loop = r
    /\ Finish(r, TextResponse(FormatText(result[r])))
    /\ UNCHANGED <<upload, pcmLen, result, hpc, invoked>>

\* GET /health. health is a plain function: the event loop hands it to a
\* worker thread, the thread runs the body, the event loop sends the reply.
HealthDispatch(h) ==
    /\ hpc[h] = "idle"
    /\ loop = Free
    /\ hpc' = [hpc EXCEPT ![h] = "pool"]
    /\ UNCHANGED <<pc, upload, pcmLen, result, resp, lock, loop, lockUsers, invoked>>

health(h) ==
    /\ hpc[h] = "pool"
    /\ hpc' = [hpc EXCEPT ![h] = "returned"]
    /\ UNCHANGED <<pc, upload, pcmLen, result, resp, lock, loop, lockUsers, invoked>>

HealthRespond(h) ==
    /\ hpc[h] = "returned"
    /\ loop = Free
    /\ hpc' = [hpc EXCEPT ![h] = "done"]
    /\ UNCHANGED <<pc, upload, pcmLen, result, resp, lock, loop, lockUsers, invoked>>

\* the steps of request r after the handler was called
Step(r) ==
    \/ Resume(r)
    \/ ReadAndEnforceSize(r)
    \/ ValidateWav(r)
    \/ Convert(r)
    \/ AcquireLock(r)
    \/ ModelRaises(r)
    \/ ReleaseLock(r)
    \/ ReturnText(r)

HealthStep(h) == HealthDispatch(h) \/ health(h) \/ HealthRespond(h)

\* Several requests together, over the core uploads.
Next ==
    \/ \E r \in Requests : \E u \in CoreUploads : Start(r, u)
    \/ \E r \in Requests : Step(r)
    \/ \E r \in Requests : \E raw \in CoreOutputs : ModelReturns(r, raw)
    \/ \E h \in HealthRequests : HealthStep(h)

Spec == Init /\ [][Next]_vars

\* The event loop runs every coroutine that is ready, and a worker thread
\* runs the function it was handed.
FairSpec ==
    /\ Spec
    /\ \A r \in Requests : WF_vars(Step(r) \/ \E raw \in CoreOutputs : ModelReturns(r, raw))
    /\ \A h \in HealthRequests : WF_vars(HealthStep(h))

\* One request, over every upload and every model output.
NextOne ==
    \/ \E u \in AllUploads : Start(1, u)
    \/ Step(1)
    \/ \E raw \in RawOutputs : ModelReturns(1, raw)
    \/ \E h \in HealthRequests : HealthStep(h)

SpecOne == Init /\ [][NextOne]_vars

\* ================================================================ claims
\* request r is between a successful acquire and the matching release
InModel(r) == pc[r] \in {"infer", "finally"}

ClientErrors == {400, 413, 415, 503}

\* C1: at most one request is inside the model invocation at any time, and
\* that request is the holder of the inference lock.
C1_MutualExclusion ==
    \A r \in Requests : \A s \in Requests :
        InModel(r) /\ InModel(s) => r = s /\ lock = r

C1_Witness ==
    \E r \in Requests : \E s \in Requests :
        r # s /\ pc[r] = "infer" /\ lock = r /\ pc[s] = "reading"

\* C2: the lock is released on every exit path of the guarded section: when
\* no request is inside the model invocation the lock is free, whether the
\* requests that held it ended with 200 or with 500.
C2_LockFreeOutside ==
    (\A r \in Requests : ~InModel(r)) => lock = Free

C2_Witness ==
    \E r \in Requests : \E s \in Requests :
        /\ pc[r] = "done" /\ resp[r].kind = "transcription_failed"
        /\ pc[s] = "done" /\ resp[s].status = 200
        /\ {r, s} \subseteq lockUsers
        /\ lock = Free

C9_ValidationNotBlocked ==
    \A r \in Requests : \A s \in Requests :
        r # s /\ InModel(r) /\ pc[s] \in {"reading", "size", "wav", "convert"}
            => ENABLED Step(s)

\* C10: the lock changes only by the acquire of a request that finds it free
\* and by the release of the request that holds it; a request that ended
\* with 415, 413, 400 or 503 never acquired or released the lock and never
\* invoked the model, its last step leaves the lock as it was, and no step
\* of GET /health touches the lock.
C10_LockFrame ==
    /\ [](\A r \in Requests :
            pc[r] = "done" /\ resp[r].status \in ClientErrors =>
               r \notin lockUsers /\ r \notin invoked /\ lock # r)
    /\ [][lock' # lock =>
            \E r \in Requests :
               \/ pc[r] = "acquire" /\ lock = Free /\ lock' = r
               \/ pc[r] = "finally" /\ lock = r /\ lock' = Free]_vars
    /\ [][\A r \in Requests :
            pc[r] # "done" /\ pc'[r] = "done" /\ resp'[r].status \in ClientErrors
               => lock' = lock /\ lockUsers' = lockUsers /\ invoked' = invoked]_vars
    /\ [][hpc' # hpc =>
            lock' = lock /\ lockUsers' = lockUsers /\ invoked' = invoked]_vars

C10_Witness ==
    \E h \in HealthRequests : \E r \in Requests : \E s \in Requests :
        /\ hpc[h] = "returned" /\ lock = r /\ InModel(r)
        /\ pc[s] = "done" /\ resp[s].status \in ClientErrors

\* -------------------------------------------------- claims on one request
Done(r) == pc[r] = "done"
ContentTypeAccepted(u) == u.ctype = "" \/ u.ctype \in AllowedContentTypes
PassedGuard(u) ==
    ContentTypeAccepted(u) /\ RawLen(u) > 0 /\ RawLen(u) <= MAX_UPLOAD_BYTES
\* the header of a WAV the wave module opens
Parseable(u) ==
    /\ u.kind = "wav" /\ u.tag = WAVE_FORMAT_PCM
    /\ u.bits > 0 /\ u.channels > 0
SampleWidth(u) == (u.bits + 7) \div 8
FrameCount(u) == u.dataDecl \div (u.channels * SampleWidth(u))
\* the data section is all there and is a whole number of frames
DataComplete(u) ==
    /\ u.dataAvail = u.dataDecl
    /\ u.dataDecl % (u.channels * SampleWidth(u)) = 0
ValidProfile(u) ==
    /\ Parseable(u)
    /\ u.rate = ALLOWED_SAMPLE_RATE /\ u.channels = ALLOWED_CHANNELS
    /\ u.bits = 8 * ALLOWED_SAMPLE_WIDTH
    /\ FrameCount(u) <= MAX_AUDIO_DURATION_SEC * ALLOWED_SAMPLE_RATE

\* C4 as stated: every upload above 1 MiB is answered 413, whatever its
\* declared content type and bytes.
C4_TooLargeAlways413 ==
    \A r \in Requests :
        Done(r) /\ RawLen(upload[r]) > MAX_UPLOAD_BYTES => resp[r].status = 413

\* C4 amended: every upload above 1 MiB whose declared content type is absent
\* or in the allow-list is answered 413 with the actual and the maximum
\* size, whatever its bytes contain.
C4_TooLargeAcceptedType413 ==
    \A r \in Requests :
        Done(r) /\ RawLen(upload[r]) > MAX_UPLOAD_BYTES
                /\ ContentTypeAccepted(upload[r])
            => /\ resp[r].status = 413
               /\ resp[r].kind = "too_large"
               /\ resp[r].actual = RawLen(upload[r])
               /\ resp[r].expected = MAX_UPLOAD_BYTES

C4_Witness ==
    \E r \in Requests :
        /\ Done(r) /\ resp[r].status = 413
        /\ ValidProfile(upload[r]) /\ DataComplete(upload[r])

\* C5: for a parseable WAV that passed the upload guard, the 400 reported is
\* the one of the first property, in the order rate, channels, width,
\* duration, that violates the profile.
C5_FirstFailureReported ==
    \A r \in Requests :
        LET u == upload[r] IN
        Done(r) /\ PassedGuard(u) /\ Parseable(u) =>
            IF u.rate # ALLOWED_SAMPLE_RATE
            THEN resp[r] = InvalidSampleRate(u.rate)
            ELSE IF u.channels # ALLOWED_CHANNELS
            THEN resp[r] = InvalidChannels(u.channels)
            ELSE IF SampleWidth(u) # ALLOWED_SAMPLE_WIDTH
            THEN resp[r] = InvalidSampleWidth(SampleWidth(u))
            ELSE IF FrameCount(u) > MAX_AUDIO_DURATION_SEC * ALLOWED_SAMPLE_RATE
            THEN resp[r] = AudioTooLong(FrameCount(u), u.rate)
            ELSE resp[r].status # 400

\* C6: a WAV that passed the upload guard with a sample rate other than 16000
\* (0 included) and every other property valid is answered 400 with a detail
\* naming the actual rate and the expected 16000.
C6_WrongRateNamed ==
    \A r \in Requests :
        LET u == upload[r] IN
        /\ Done(r) /\ PassedGuard(u) /\ Parseable(u)
        /\ u.rate # ALLOWED_SAMPLE_RATE
        /\ u.channels = ALLOWED_CHANNELS /\ SampleWidth(u) = ALLOWED_SAMPLE_WIDTH
        /\ FrameCount(u) <= MAX_AUDIO_DURATION_SEC * u.rate
        => /\ resp[r].status = 400
           /\ resp[r].kind = "bad_rate"
           /\ resp[r].actual = u.rate
           /\ resp[r].expected = ALLOWED_SAMPLE_RATE

\* C7: every finished request has one structured outcome of 200, 400, 413,
\* 415, 500 TranscriptionError or 503, and an upload that passed the guard
\* and is not a well-formed WAV (not parseable, or its data section cut short
\* or not a whole number of samples) ends with 400.
C7_StructuredOutcome ==
    \A r \in Requests :
        Done(r) =>
            /\ resp[r].kind \in
                 {"text", "unsupported_media", "too_large", "empty", "bad_rate",
                  "bad_channels", "bad_width", "too_long", "invalid_wav",
                  "busy", "transcription_failed"}
            /\ PassedGuard(upload[r])
                 /\ ~(Parseable(upload[r]) /\ DataComplete(upload[r]))
               => resp[r].status = 400

\* t is raw without its leading and trailing whitespace, lowercased
IsTrimmedLowered(t, raw) ==
    \E i \in 0..Len(raw) : \E j \in 0..Len(raw) :
        /\ i + j <= Len(raw)
        /\ \A k \in 1..i : raw[k] \in Whitespace
        /\ \A k \in (Len(raw) - j + 1)..Len(raw) : raw[k] \in Whitespace
        /\ Len(t) = Len(raw) - i - j
        /\ \A k \in 1..Len(t) : t[k] = LowerChar(raw[i + k])
        /\ t # <<>> => t[1] \notin Whitespace /\ t[Len(t)] \notin Whitespace

\* C8: a valid 16 kHz mono 16-bit WAV of at most 80000 frames with an
\* accepted or absent content type is never rejected by the checks; when the
\* model returns a raw text the response is 200 and its text is the raw text
\* stripped of leading and trailing whitespace and lowercased, with no
\* uppercase character (the only other outcome is the 500 of a model
\* invocation that raised).
C8_ValidInputText ==
    \A r \in Requests :
        LET u == upload[r] IN
        Done(r) /\ PassedGuard(u) /\ ValidProfile(u) /\ DataComplete(u) =>
            \/ resp[r].kind = "transcription_failed" /\ resp[r].status = 500
            \/ /\ resp[r].kind = "text" /\ resp[r].status = 200
               /\ IsTrimmedLowered(resp[r].text, result[r])
               /\ \A k \in 1..Len(resp[r].text) : ~IsUpperChar(resp[r].text[k])

C8_Witness ==
    \E r \in Requests :
        /\ Done(r) /\ resp[r].status = 200
        /\ FrameCount(upload[r]) = MAX_AUDIO_DURATION_SEC * ALLOWED_SAMPLE_RATE
        /\ ValidProfile(upload[r]) /\ DataComplete(upload[r])
        /\ upload[r].ctype = ""
        /\ result[r] = <<" ", "A">>
        /\ resp[r].text = <<"a">>

====
